---- MODULE Spec2Model ----
(***************************************************************************)
(* Model of better_device_information.py: one synchronisation run (main)   *)
(* reconciles the inventory, box-mapping and ledger tables with a snapshot *)
(* fetched from the device and team endpoints, inside one database         *)
(* transaction.  The model runs main repeatedly against the same engine.   *)
(***************************************************************************)
EXTENDS Naturals, Sequences, FiniteSets, TLC

(* ----------------------------- bounds --------------------------------- *)
\* Longest device list a snapshot carries.
MaxDevices == 2
\* Number of runs of main in one behaviour.
MaxRuns == 2
\* Longest device list the box grouper is called on by itself.
MaxGroup == 3

(* ------------------------- Python / JSON values ------------------------ *)
\* Python's None (a JSON null, a NULL column); str(None) is "None".
None == "None"
\* A key that is missing from a JSON object.
Absent == "<absent>"
\* The exceptions the helpers can raise, as result values.
AttributeError == "AttributeError"
KeyError == "KeyError"
IntegrityError == "IntegrityError"
NoResultFound == "NoResultFound"

\* What a helper that can raise gives back: its value, or the exception.
Ok(v) == [raised |-> FALSE, error |-> "none", value |-> v]
Raise(e, v) == [raised |-> TRUE, error |-> e, value |-> v]

\* dict.get(key)
Get(d, k) == IF d[k] = Absent THEN None ELSE d[k]
\* dict.get(key, default)
GetDefault(d, k, default) == IF d[k] = Absent THEN default ELSE d[k]
\* truth value of a string-or-None
Truthy(v) == v \notin {None, "", Absent}
\* x or y
Or(x, y) == IF Truthy(x) THEN x ELSE y

\* str.lower() on the category names the fleets use
Lower(s) ==
    CASE s = "Chrome" -> "chrome"
      [] s = "SAFARI" -> "safari"
      [] s = "FireFox" -> "firefox"
      [] OTHER -> s

\* sub in s, on the usage roles the fleets use
Contains(sub, s) ==
    \/ s = sub
    \/ sub = "device_under_test" /\ s = "device_under_test_spare"
    \/ sub = "control" /\ s = "remote_control"

RECURSIVE JoinFrom(_, _)
JoinFrom(acc, rest) ==
    IF rest = <<>> THEN acc ELSE JoinFrom(acc \o ", " \o Head(rest), Tail(rest))
\* ', '.join(names)
Join(names) == IF names = <<>> THEN "" ELSE JoinFrom(Head(names), Tail(names))

\* x in list
InSeq(x, s) == \E i \in 1..Len(s) : s[i] = x

(* --------------------------- avbox_info -------------------------------- *)
\* device["avbox_info"]: missing, null, an object {usage, devices} either of
\* which may be missing, or a value that is no object (kind "str").
NoAvbox == [kind |-> "absent", usage |-> Absent, has_devices |-> FALSE, devices |-> <<>>]
Avbox(usage, devs) == [kind |-> "dict", usage |-> usage, has_devices |-> TRUE, devices |-> devs]
AvboxNoDevices(usage) == [kind |-> "dict", usage |-> usage, has_devices |-> FALSE, devices |-> <<>>]
AvboxString == [kind |-> "str", usage |-> Absent, has_devices |-> FALSE, devices |-> <<>>]

\* truth value of device.get("avbox_info"): a non-empty object or string
AvboxTruthy(a) ==
    \/ a.kind = "str"
    \/ a.kind = "dict" /\ (a.usage # Absent \/ a.has_devices)

(* ------------------------- Identity Resolver --------------------------- *)
get_effective_device_type(device) ==
    LET device_subtype == Get(device, "device_subtype")
        device_type == GetDefault(device, "device_type", "")
    IN  IF Truthy(device_subtype) THEN device_subtype
        ELSE IF device_type = None THEN AttributeError
        ELSE IF Lower(device_type) \in {"chrome", "firefox", "safari"} THEN "browser"
        ELSE device_type

get_unique_device_id(device) ==
    LET t == get_effective_device_type(device)
    IN  IF t = AttributeError THEN AttributeError
        ELSE IF t = "browser" THEN Get(device, "device_address")
        ELSE Get(device, "device_id")

(* --------------------------- Team Annotator ---------------------------- *)
\* The team document: None, or {"devices": [entry, ...]} whose key may be
\* missing; an entry is {device_address, teams: [{team_name}, ...]} with any
\* key missing.
NoneDoc == [isNone |-> TRUE, has_devices |-> FALSE, devices |-> <<>>]
Doc(devs) == [isNone |-> FALSE, has_devices |-> TRUE, devices |-> devs]
DocNoDevices == [isNone |-> FALSE, has_devices |-> FALSE, devices |-> <<>>]

\* not doc or not doc.get("devices")
Unusable(doc) == doc.isNone \/ ~doc.has_devices \/ doc.devices = <<>>

RECURSIVE TeamsOfEntry(_, _)
\* the inner loop of get_device_teams: [raised, error, value]
TeamsOfEntry(teams, device_teams) ==
    IF teams = <<>> THEN Ok(device_teams)
    ELSE LET team == Head(teams)
         IN  IF team.team_name = Absent THEN Raise(KeyError, device_teams)
             ELSE TeamsOfEntry(Tail(teams),
                      IF InSeq(team.team_name, device_teams) THEN device_teams
                      ELSE Append(device_teams, team.team_name))

RECURSIVE TeamsLoop(_, _, _)
TeamsLoop(device_address, entries, device_teams) ==
    IF entries = <<>> THEN Ok(device_teams)
    ELSE LET device == Head(entries)
         IN  IF device_address = Get(device, "device_address")
             THEN LET r == TeamsOfEntry(IF device.has_teams THEN device.teams ELSE <<>>,
                                        device_teams)
                  IN  IF r.raised THEN r
                      ELSE TeamsLoop(device_address, Tail(entries), r.value)
             ELSE TeamsLoop(device_address, Tail(entries), device_teams)

\* [raised, error, value]: the team names, or a KeyError on an entry with no team_name
get_device_teams(device_address, teams_list) ==
    IF Unusable(teams_list) THEN Ok(<<>>)
    ELSE TeamsLoop(device_address, teams_list.devices, <<>>)

(* ------------------------ record normalisation ------------------------- *)
\* device["device_skus"]: a list, or missing
SkuList(items) == [isList |-> TRUE, items |-> items]
SkuAbsent == [isList |-> FALSE, items |-> <<>>]

NoRecord == [device_type |-> None, model |-> None, device_skus |-> None, udid |-> None,
             host_name |-> None, os_version |-> None, location |-> "",
             device_notes |-> None, teams |-> "", is_avbox |-> FALSE]

\* [raised, error, value]: the inventory fields of a device
device_details_for_db(device, teams_list) ==
    LET device_teams == get_device_teams(Get(device, "device_address"), teams_list)
        skus == device.device_skus
    IN  IF device_teams.raised THEN Raise(device_teams.error, NoRecord)
        ELSE IF get_effective_device_type(device) = AttributeError
        THEN Raise(AttributeError, NoRecord)
        ELSE Ok([device_type |-> get_effective_device_type(device),
               model |-> Get(device, "model"),
               device_skus |-> IF skus.isList THEN Join(skus.items) ELSE None,
               udid |-> get_unique_device_id(device),
               host_name |-> Get(device, "hostname"),
               os_version |-> Get(device, "os_version"),
               location |-> GetDefault(device, "host_city", "") \o ", "
                              \o GetDefault(device, "host_country", ""),
               device_notes |-> Get(device, "device_note"),
               teams |-> IF device_teams.value # <<>> THEN Join(device_teams.value) ELSE "",
               is_avbox |-> AvboxTruthy(device.avbox_info)])

(* ----------------------------- Box Grouper ----------------------------- *)
\* AVBoxs_data: the bundles in insertion order; a key of a bundle that was
\* never set is Absent.
NewBundle(dut_address) ==
    [dut |-> dut_address, device_type |-> Absent, device_notes |-> Absent,
     camera_device |-> Absent, control |-> Absent]

\* dut_address in AVBoxs
HasBundle(AVBoxs, dut_address) == \E i \in 1..Len(AVBoxs) : AVBoxs[i].dut = dut_address
BundleIndex(AVBoxs, dut_address) == CHOOSE i \in 1..Len(AVBoxs) : AVBoxs[i].dut = dut_address

safe_get_device(device_list, index) ==
    IF index + 1 <= Len(device_list) THEN device_list[index + 1] ELSE None

\* the guard of line 168: no usage, or no devices
AvboxIncomplete(avbox_info) ==
    \/ ~Truthy(Get(avbox_info, "usage"))
    \/ ~(avbox_info.has_devices /\ avbox_info.devices # <<>>)

\* a grouper whose device-under-test branch assigns the bundle anew instead
\* of updating it
add_avbox_mapping_entry_assign(device, AVBoxs) ==
    LET avbox_info == device.avbox_info
        same == Ok(AVBoxs)
    IN  IF ~AvboxTruthy(avbox_info) THEN same
        ELSE IF avbox_info.kind = "str" THEN Raise(AttributeError, AVBoxs)
        ELSE IF AvboxIncomplete(avbox_info) THEN same
        ELSE
        LET usage == avbox_info.usage
            avbox_devices == avbox_info.devices
            isDut == Contains("device_under_test", usage)
            dut_address == IF isDut THEN Get(device, "device_address")
                           ELSE safe_get_device(avbox_devices, 0)
        IN  IF ~Truthy(dut_address) THEN same
            ELSE
            LET withKey == IF HasBundle(AVBoxs, dut_address) THEN AVBoxs
                           ELSE Append(AVBoxs, NewBundle(dut_address))
                i == BundleIndex(withKey, dut_address)
                b == withKey[i]
                b2 == IF isDut
                      THEN [NewBundle(dut_address)
                             EXCEPT !.device_type = Or(Get(device, "device_subtype"),
                                                        Get(device, "device_type")),
                                     !.device_notes = Get(device, "device_note")]
                      ELSE IF Contains("camera_device", usage)
                      THEN [b EXCEPT !.camera_device = Get(device, "device_address")]
                      ELSE IF Contains("control", usage)
                      THEN [b EXCEPT !.control = Get(device, "device_address")]
                      ELSE b
            IN  Ok([withKey EXCEPT ![i] = b2])

\* [raised, error, value]: AVBoxs after the device; AttributeError when avbox_info
\* is no object
add_avbox_mapping_entry(device, AVBoxs) ==
    LET avbox_info == device.avbox_info
        same == Ok(AVBoxs)
    IN  IF ~AvboxTruthy(avbox_info) THEN same
        ELSE IF avbox_info.kind = "str" THEN Raise(AttributeError, AVBoxs)
        ELSE IF AvboxIncomplete(avbox_info) THEN same
        ELSE
        LET usage == avbox_info.usage
            avbox_devices == avbox_info.devices
            isDut == Contains("device_under_test", usage)
            dut_address == IF isDut THEN Get(device, "device_address")
                           ELSE safe_get_device(avbox_devices, 0)
        IN  IF ~Truthy(dut_address) THEN same
            ELSE
            LET withKey == IF HasBundle(AVBoxs, dut_address) THEN AVBoxs
                           ELSE Append(AVBoxs, NewBundle(dut_address))
                i == BundleIndex(withKey, dut_address)
                b == withKey[i]
                b2 == IF isDut
                      THEN [b EXCEPT !.device_type = Or(Get(device, "device_subtype"),
                                                        Get(device, "device_type")),
                                     !.device_notes = Get(device, "device_note")]
                      ELSE IF Contains("camera_device", usage)
                      THEN [b EXCEPT !.camera_device = Get(device, "device_address")]
                      ELSE IF Contains("control", usage)
                      THEN [b EXCEPT !.control = Get(device, "device_address")]
                      ELSE b
            IN  Ok([withKey EXCEPT ![i] = b2])

RECURSIVE GroupLoop(_, _)
\* lines 199-201: [raised, error, value]
GroupLoop(devices, AVBoxs) ==
    IF devices = <<>> THEN Ok(AVBoxs)
    ELSE LET r == IF AvboxTruthy(Head(devices).avbox_info)
                  THEN add_avbox_mapping_entry(Head(devices), AVBoxs)
                  ELSE Ok(AVBoxs)
         IN  IF r.raised THEN r ELSE GroupLoop(Tail(devices), r.value)

(* ------------------------------ the tables ----------------------------- *)
\* device_inventory and avbox_mapping are sets of rows with an integer
\* primary key; device_ledger is the sequence of its rows in insertion order.
EmptyDb == [inventory |-> {}, avbox |-> {}, ledger |-> <<>>]

\* the next autoincrement primary key
NextId(rows) ==
    IF rows = {} THEN 1
    ELSE (CHOOSE m \in {r.id : r \in rows} : \A r \in rows : r.id <= m) + 1

\* query(...).filter_by(key=value).all()
Matching(rows, key, value) == {r \in rows : r[key] = value}
\* .first() of a non-empty result: the row of lowest primary key
FirstOf(rows) == CHOOSE r \in rows : \A q \in rows : r.id <= q.id

\* {uid for (uid,) in session.query(DeviceInventory.udid).all()}
InventoryIds(t) == {r.udid : r \in t.inventory}

InventoryRow(id, rec) ==
    [id |-> id, device_type |-> rec.device_type, model |-> rec.model,
     device_skus |-> rec.device_skus, udid |-> rec.udid, host_name |-> rec.host_name,
     os_version |-> rec.os_version, location |-> rec.location,
     device_notes |-> rec.device_notes, teams |-> rec.teams, is_avbox |-> rec.is_avbox]

\* the unique constraint on udid, which NULLs do not violate
ViolatesUnique(rows, udid) == udid # None /\ Matching(rows, "udid", udid) # {}

\* a ledger that keeps its newest row only
LedgerAddOnly(ledger, udid, status, now, details) ==
    <<[udid |-> udid, status |-> status, timestamp |-> now, details |-> details]>>

\* session.add(DeviceLedger(...)): the new row goes last
LedgerAdd(ledger, udid, status, now, details) ==
    Append(ledger, [udid |-> udid, status |-> status, timestamp |-> now, details |-> details])

Details(model, type, has_companions, camera, control) ==
    [model |-> model, type |-> type, has_companions |-> has_companions,
     camera |-> camera, control |-> control]

(* --------------------------- Snapshot Diff ----------------------------- *)
\* line 203
ApiUniqueIds(devices) == {get_unique_device_id(devices[i]) : i \in 1..Len(devices)}
\* the diff without the subtraction of the persisted identifiers
AddedIdsAll(api_unique_ids, db_unique_ids) == api_unique_ids

\* line 205
AddedIds(api_unique_ids, db_unique_ids) == api_unique_ids \ db_unique_ids
\* line 206
RemovedIds(api_unique_ids, db_unique_ids) == db_unique_ids \ db_unique_ids

(* ------------------------------ Reconciler ----------------------------- *)
RECURSIVE RemoveLoop(_, _, _)
\* lines 211-218 over the identifiers in the order the set yields them:
\* [raised, error, value]; .one() raises unless exactly one row matches
RemoveLoop(order, t, now) ==
    IF order = <<>> THEN Ok(t)
    ELSE
    LET unique_id == Head(order)
        found == Matching(t.inventory, "udid", unique_id)
    IN  IF Cardinality(found) # 1 THEN Raise(NoResultFound, t)
        ELSE
        LET device_to_remove == FirstOf(found)
            maps == Matching(t.avbox, "dut", unique_id)
            details == IF maps # {}
                       THEN Details(device_to_remove.model, device_to_remove.device_type,
                                    TRUE, FirstOf(maps).camera_device, FirstOf(maps).control)
                       ELSE Details(device_to_remove.model, device_to_remove.device_type,
                                    FALSE, None, None)
        IN  RemoveLoop(Tail(order),
                [t EXCEPT !.ledger = LedgerAdd(t.ledger, unique_id, "removed", now, details),
                          !.inventory = t.inventory \ {device_to_remove}],
                now)

\* a filter that lets every device through
InventoryEligibleAll(avbox_info) == TRUE

\* line 223: the device goes to the inventory
InventoryEligible(avbox_info) ==
    ~AvboxTruthy(avbox_info) \/ Get(avbox_info, "usage") = "device_under_test"

\* an upsert that leaves the row it finds as it is
UpsertInventoryKeep(inventory, rec) ==
    IF Matching(inventory, "udid", rec.udid) # {} THEN Ok(inventory)
    ELSE IF ViolatesUnique(inventory, rec.udid)
    THEN Raise(IntegrityError, inventory)
    ELSE Ok(inventory \cup {InventoryRow(NextId(inventory), rec)})

\* the upsert without the lookup of the existing row
InsertInventory(inventory, rec) ==
    IF ViolatesUnique(inventory, rec.udid)
    THEN Raise(IntegrityError, inventory)
    ELSE Ok(inventory \cup {InventoryRow(NextId(inventory), rec)})

\* lines 227-231: overwrite every field of the first row of this udid, or
\* insert a row; [raised, error, value], IntegrityError on a second row of a udid
UpsertInventory(inventory, rec) ==
    LET existing == Matching(inventory, "udid", rec.udid)
    IN  IF existing # {}
        THEN Ok((inventory \ {FirstOf(existing)})
                            \cup {InventoryRow(FirstOf(existing).id, rec)})
        ELSE IF ViolatesUnique(inventory, rec.udid)
        THEN Raise(IntegrityError, inventory)
        ELSE Ok(inventory \cup {InventoryRow(NextId(inventory), rec)})

\* a loop body that writes no ledger entry
LedgerAddedNever(ledger, device, unique_id, added, AVBoxs, now) == Ok(ledger)

\* lines 233-238: the 'added' entry of a device, [raised, error, value]; KeyError
\* when the device has no device_address
LedgerAdded(ledger, device, unique_id, added, AVBoxs, now) ==
    IF unique_id \notin added THEN Ok(ledger)
    ELSE IF device.device_address = Absent THEN Raise(KeyError, ledger)
    ELSE
    LET type == get_effective_device_type(device)
        has == HasBundle(AVBoxs, device.device_address)
        avbox_map == AVBoxs[BundleIndex(AVBoxs, device.device_address)]
        details == IF has
                   THEN Details(Get(device, "model"), type, TRUE,
                                Get(avbox_map, "camera_device"), Get(avbox_map, "control"))
                   ELSE Details(Get(device, "model"), type, FALSE, None, None)
    IN  Ok(LedgerAdd(ledger, unique_id, "added", now, details))

\* one pass of the loop of lines 221-238: [raised, error, value]
UpsertDevice(device, t, teams_list, added, AVBoxs, now) ==
    IF device.avbox_info.kind = "str" THEN Raise(AttributeError, t)
    ELSE IF ~InventoryEligible(device.avbox_info) THEN Ok(t)
    ELSE
    LET device_inventory_data == device_details_for_db(device, teams_list)
    IN  IF device_inventory_data.raised THEN Raise(device_inventory_data.error, t)
        ELSE
        LET unique_id == device_inventory_data.value.udid
            inv == UpsertInventory(t.inventory, device_inventory_data.value)
            t2 == [t EXCEPT !.inventory = inv.value]
            led == LedgerAdded(t.ledger, device, unique_id, added, AVBoxs, now)
        IN  IF inv.raised THEN Raise(inv.error, t)
            ELSE IF led.raised THEN Raise(led.error, t2)
            ELSE Ok([t2 EXCEPT !.ledger = led.value])

RECURSIVE UpsertLoop(_, _, _, _, _, _)
UpsertLoop(devices, t, teams_list, added, AVBoxs, now) ==
    IF devices = <<>> THEN Ok(t)
    ELSE LET r == UpsertDevice(Head(devices), t, teams_list, added, AVBoxs, now)
         IN  IF r.raised THEN r
             ELSE UpsertLoop(Tail(devices), r.value, teams_list, added, AVBoxs, now)

\* AVBoxMapping(**avbox_map_data): the keys the bundle lacks are NULL
MappingRow(id, bundle) ==
    [id |-> id, dut |-> bundle.dut, device_type |-> Get(bundle, "device_type"),
     device_notes |-> Get(bundle, "device_notes"),
     camera_device |-> Get(bundle, "camera_device"), control |-> Get(bundle, "control")]

\* setattr for every key of the bundle
OverwriteMapping(row, bundle) ==
    [id |-> row.id, dut |-> bundle.dut,
     device_type |-> GetDefault(bundle, "device_type", row.device_type),
     device_notes |-> GetDefault(bundle, "device_notes", row.device_notes),
     camera_device |-> GetDefault(bundle, "camera_device", row.camera_device),
     control |-> GetDefault(bundle, "control", row.control)]

\* the upsert without the lookup of the existing mapping
UpsertMappingInsert(avbox, bundle) == avbox \cup {MappingRow(NextId(avbox), bundle)}

\* lines 241-245 for one bundle
UpsertMapping(avbox, bundle) ==
    LET existing == Matching(avbox, "dut", bundle.dut)
    IN  IF existing # {}
        THEN (avbox \ {FirstOf(existing)}) \cup {OverwriteMapping(FirstOf(existing), bundle)}
        ELSE avbox \cup {MappingRow(NextId(avbox), bundle)}

RECURSIVE MapLoopFresh(_, _)
\* a loop that writes the bundles of the snapshot over an emptied table
MapLoopFresh(AVBoxs, avbox) ==
    IF AVBoxs = <<>> THEN {}
    ELSE UpsertMapping(MapLoopFresh(SubSeq(AVBoxs, 1, Len(AVBoxs) - 1), avbox),
                       AVBoxs[Len(AVBoxs)])

RECURSIVE MapLoop(_, _)
\* lines 240-245
MapLoop(AVBoxs, avbox) ==
    IF AVBoxs = <<>> THEN avbox
    ELSE MapLoop(Tail(AVBoxs), UpsertMapping(avbox, Head(AVBoxs)))

(* ------------------------- the upstream fleets ------------------------- *)
\* A raw device as the device endpoint reports it.
Device(type, subtype, id, address, model, avbox) ==
    [device_type |-> type, device_subtype |-> subtype, device_id |-> id,
     device_address |-> address, model |-> model,
     device_skus |-> SkuList(<<"sku1", "sku2">>), hostname |-> "host1",
     os_version |-> "14", host_city |-> "Berlin", host_country |-> Absent,
     device_note |-> Absent, avbox_info |-> avbox]

Phone == Device("android", Absent, "u1", "a1", "Pixel", NoAvbox)
\* the same phone, reported with other field values
PhoneRenamed == [Device("android", Absent, "u1", "a1", "Galaxy", NoAvbox)
                    EXCEPT !.device_note = "moved", !.device_skus = SkuAbsent]
\* a browser endpoint of the same physical device
Browser == Device("Chrome", Absent, "u1", "a2", "Pixel", NoAvbox)
NoId == Device("ios", Absent, Absent, "a3", None, NoAvbox)

Dut == [Device("android", "tv", "u2", "a4", "Shield", Avbox("device_under_test", <<"a5">>))
           EXCEPT !.device_note = "rack 1"]
DutAlone == Device("android", Absent, "u3", "a6", "Shield", Avbox("device_under_test", <<>>))
Camera == Device("android", Absent, "u4", "a5", "Cam", Avbox("camera_device", <<"a4">>))
Control == Device("android", Absent, "u5", "a7", "Pad", Avbox("control", <<"a4">>))

NoAddress == Device("android", Absent, "u6", Absent, "Pixel", NoAvbox)
NullType == Device(None, Absent, "u7", "a8", "Pixel", NoAvbox)
BadAux == Device("android", Absent, "u8", "a9", "Pixel", AvboxString)
CameraNoDevices == Device("android", Absent, "u9", "a10", "Cam", AvboxNoDevices("camera_device"))

TeamEntry(address, names) ==
    [device_address |-> address, has_teams |-> TRUE,
     teams |-> [i \in 1..Len(names) |-> [team_name |-> names[i]]]]
EntryNoTeams(address) == [device_address |-> address, has_teams |-> FALSE, teams |-> <<>>]

TeamsGood == Doc(<<TeamEntry("a1", <<"A", "B">>), TeamEntry("a4", <<"C">>),
                   TeamEntry("a1", <<"B", "C">>)>>)
\* an entry of a1 whose team carries no team_name
TeamsNoName == Doc(<<TeamEntry("a1", <<Absent>>)>>)
\* entries lacking device_address or teams
TeamsSparse == Doc(<<EntryNoTeams("a8"), TeamEntry(Absent, <<"A">>)>>)

\* The devices that exist upstream and the team documents the team endpoint
\* serves for them; a snapshot lists devices of one fleet.
Fleets ==
    { [devices |-> {Phone, PhoneRenamed, Browser},
       teamDocs |-> {TeamsGood, TeamsNoName}],
      [devices |-> {Dut, Camera, Control},
       teamDocs |-> {TeamsGood}],
      [devices |-> {DutAlone, NoId, BadAux},
       teamDocs |-> {TeamsGood}],
      [devices |-> {NoAddress, NullType, CameraNoDevices},
       teamDocs |-> {TeamsSparse}],
      [devices |-> {Dut, Phone},
       teamDocs |-> {TeamsGood}] }

\* the device lists of at most MaxDevices devices
Lists(S) == UNION {[1..n -> S] : n \in 0..MaxDevices}

\* An HTTP exchange: a transport fault, or a status and a JSON body.
Response(status, body) == [fault |-> FALSE, status |-> status, body |-> body]
TransportFault == [fault |-> TRUE, status |-> 0, body |-> NoneDoc]

DeviceResponses(f) ==
    {Response(200, Doc(l)) : l \in Lists(f.devices)}
        \cup {Response(500, Doc(<<d>>)) : d \in f.devices}
        \cup {Response(200, DocNoDevices), TransportFault}
TeamResponses(f) ==
    {Response(200, doc) : doc \in f.teamDocs} \cup {Response(500, NoneDoc)}

\* the fetch without the check of the status
fetch_data_any(response) == response.body

\* lines 119-122: the document of a 200 response, None otherwise
fetch_data(response) == IF response.status = 200 THEN response.body ELSE NoneDoc

\* what the two endpoints answer; known is FALSE when the upstream has
\* changed since the last run and its answers are yet to be seen
UnknownUpstream == [known |-> FALSE, devices |-> TransportFault, teams |-> TransportFault]
Upstreams(f) ==
    {[known |-> TRUE, devices |-> d, teams |-> t] :
        d \in DeviceResponses(f), t \in TeamResponses(f)}

\* the orders in which a set can be iterated
Orders(S) == {o \in [1..Cardinality(S) -> S] : \A i, j \in 1..Cardinality(S) : o[i] = o[j] => i = j}

(* ------------------------------- state --------------------------------- *)
VARIABLES
    fleet,              \* the devices and team documents that exist upstream
    upstream,           \* the answers of the two endpoints
    db,                 \* the committed tables
    tx,                 \* the tables as the open session sees them
    session,            \* "closed" or "open"
    pc,                 \* the place of main
    runs,               \* completed runs of main
    devices_list_raw,   \* main's locals
    devices_team_list,
    AVBoxs_data,
    added_ids,
    removed_ids,
    pre,                \* the committed tables when the run began
    raised_at,          \* the step that raised, "none" if none did
    fault,              \* the exception caught, "none" if none was
    discarded,          \* what the session saw when it was rolled back
    committed,          \* session.commit() returned in this run
    stable,             \* the preceding run committed on these same answers
    call,               \* a helper called on its own: its name and arguments
    result              \* what that call returned

vars == <<fleet, upstream, db, tx, session, pc, runs, devices_list_raw, devices_team_list,
          AVBoxs_data, added_ids, removed_ids, pre, raised_at, fault, discarded,
          committed, stable, call, result>>

locals == <<devices_list_raw, devices_team_list, AVBoxs_data, added_ids, removed_ids>>
\* what a step inside the try block leaves alone
frame == <<call, result, fleet, upstream, db, session, runs, pre, discarded, stable>>

\* the timestamp of the ledger rows a run writes
Now == runs + 1

\* no helper is called on its own
NoCall == [fn |-> "none"]
NoResult == [done |-> FALSE]

Init ==
    /\ fleet \in Fleets
    /\ upstream = UnknownUpstream
    /\ db = EmptyDb
    /\ tx = EmptyDb
    /\ session = "closed"
    /\ pc = "idle"
    /\ runs = 0
    /\ devices_list_raw = NoneDoc
    /\ devices_team_list = NoneDoc
    /\ AVBoxs_data = <<>>
    /\ added_ids = {}
    /\ removed_ids = {}
    /\ pre = EmptyDb
    /\ raised_at = "none"
    /\ fault = "none"
    /\ discarded = EmptyDb
    /\ committed = FALSE
    /\ stable = FALSE
    /\ call = NoCall
    /\ result = NoResult

\* an exception leaves the try block for the handler of line 290
Raises(step, e) ==
    /\ raised_at' = step
    /\ fault' = e
    /\ pc' = "except"

\* the step ends and main goes on
Goes(next) ==
    /\ pc' = next
    /\ UNCHANGED <<raised_at, fault>>

(* ------------------------------- main ---------------------------------- *)
\* lines 189-197 on the answers u: the session opens, both documents are
\* fetched; a transport fault raises, an unusable device document returns
Begin(u, same) ==
    /\ pc = "idle"
    /\ runs < MaxRuns
    /\ upstream' = u
    /\ stable' = same
    /\ session' = "open"
    /\ pre' = db
    /\ tx' = db
    /\ discarded' = db
    /\ committed' = FALSE
    /\ UNCHANGED <<call, result, fleet, db, runs, AVBoxs_data, added_ids, removed_ids>>
    /\ IF u.devices.fault \/ u.teams.fault
       THEN /\ Raises("fetch", "TransportError")
            /\ UNCHANGED <<devices_list_raw, devices_team_list>>
       ELSE /\ raised_at' = "none"
            /\ fault' = "none"
            /\ devices_list_raw' = fetch_data(u.devices)
            /\ devices_team_list' = fetch_data(u.teams)
            /\ pc' = IF Unusable(fetch_data(u.devices)) THEN "finally" ELSE "group"

\* a run after the upstream changed: the endpoints answer anything
FetchNew ==
    /\ ~upstream.known
    /\ \E u \in Upstreams(fleet) : Begin(u, FALSE)

\* a run on an unchanged upstream: the endpoints answer as in the last run
FetchSame ==
    /\ upstream.known
    /\ Begin(upstream, TRUE)

\* lines 199-201
Group ==
    /\ pc = "group"
    /\ LET r == GroupLoop(devices_list_raw.devices, <<>>)
       IN  IF r.raised
           THEN Raises("group", r.error) /\ UNCHANGED AVBoxs_data
           ELSE Goes("diff") /\ AVBoxs_data' = r.value
    /\ UNCHANGED <<frame, tx, committed, devices_list_raw, devices_team_list,
                   added_ids, removed_ids>>

\* lines 203-209
Diff ==
    /\ pc = "diff"
    /\ LET api_unique_ids == ApiUniqueIds(devices_list_raw.devices)
           db_unique_ids == InventoryIds(tx)
       IN  IF AttributeError \in api_unique_ids
           THEN Raises("diff", AttributeError) /\ UNCHANGED <<added_ids, removed_ids>>
           ELSE /\ Goes("remove")
                /\ added_ids' = AddedIds(api_unique_ids, db_unique_ids)
                /\ removed_ids' = RemovedIds(api_unique_ids, db_unique_ids)
    /\ UNCHANGED <<frame, tx, committed, devices_list_raw, devices_team_list, AVBoxs_data>>

\* lines 211-218
Remove ==
    /\ pc = "remove"
    /\ \E order \in Orders(removed_ids) :
          LET r == RemoveLoop(order, tx, Now)
          IN  /\ tx' = r.value
              /\ IF r.raised THEN Raises("remove", r.error) ELSE Goes("upsert")
    /\ UNCHANGED <<frame, locals, committed>>

\* lines 220-238
Upsert ==
    /\ pc = "upsert"
    /\ LET r == UpsertLoop(devices_list_raw.devices, tx, devices_team_list,
                           added_ids, AVBoxs_data, Now)
       IN  /\ tx' = r.value
           /\ IF r.raised THEN Raises("upsert", r.error) ELSE Goes("map")
    /\ UNCHANGED <<frame, locals, committed>>

\* lines 240-245
MapUpsert ==
    /\ pc = "map"
    /\ tx' = [tx EXCEPT !.avbox = MapLoop(AVBoxs_data, tx.avbox)]
    /\ Goes("commit")
    /\ UNCHANGED <<frame, locals, committed>>

\* what session.commit() makes of the tables the session sees
Committed(t) == t

\* line 247
Commit ==
    /\ pc = "commit"
    /\ db' = Committed(tx)
    /\ committed' = TRUE
    /\ Goes("report")
    /\ UNCHANGED <<call, result, fleet, upstream, session, runs, pre, discarded, stable, tx, locals>>

\* lines 248-288: the inspection section reads and prints
Report ==
    /\ pc = "report"
    /\ Goes("finally")
    /\ UNCHANGED <<frame, tx, locals, committed>>

\* a query or a print of the inspection section raises
ReportFault ==
    /\ pc = "report"
    /\ Raises("report", "ReportError")
    /\ UNCHANGED <<frame, tx, locals, committed>>

\* the database raises on the query of line 204 or on the commit
DbFault ==
    /\ pc \in {"diff", "commit"}
    /\ Raises(pc, "DatabaseError")
    /\ UNCHANGED <<frame, tx, locals, committed>>

\* the database raises in the loop of lines 221-238 after k devices
UpsertFault ==
    /\ pc = "upsert"
    /\ \E k \in 0..(Len(devices_list_raw.devices) - 1) :
          LET r == UpsertLoop(SubSeq(devices_list_raw.devices, 1, k), tx,
                              devices_team_list, added_ids, AVBoxs_data, Now)
          IN  /\ ~r.raised
              /\ tx' = r.value
    /\ Raises("upsert", "DatabaseError")
    /\ UNCHANGED <<frame, locals, committed>>

\* the database raises in the loop of lines 240-245 after k bundles
MapFault ==
    /\ pc = "map"
    /\ \E k \in 0..(Len(AVBoxs_data) - 1) :
          tx' = [tx EXCEPT !.avbox = MapLoop(SubSeq(AVBoxs_data, 1, k), tx.avbox)]
    /\ Raises("map", "DatabaseError")
    /\ UNCHANGED <<frame, locals, committed>>

\* a handler that keeps what the session wrote
RolledBackKeeps(committedTables, seen) == seen

\* what session.rollback() leaves of the committed tables and of what the
\* session saw: the committed tables
RolledBack(committedTables, seen) == committedTables

\* lines 290-292
Except ==
    /\ pc = "except"
    /\ discarded' = tx
    /\ tx' = RolledBack(db, tx)
    /\ db' = RolledBack(db, tx)
    /\ pc' = "finally"
    /\ UNCHANGED <<call, result, fleet, upstream, session, runs, locals, pre, raised_at, fault,
                   committed, stable>>

\* a return of main that leaves the session as it is
CloseLeaks(next) ==
    /\ pc = "finally"
    /\ session' = session
    /\ tx' = db
    /\ pc' = "idle"
    /\ runs' = runs + 1
    /\ upstream' = next
    /\ devices_list_raw' = NoneDoc
    /\ devices_team_list' = NoneDoc
    /\ AVBoxs_data' = <<>>
    /\ added_ids' = {}
    /\ removed_ids' = {}
    /\ pre' = db
    /\ discarded' = db
    /\ raised_at' = "none"
    /\ fault' = "none"
    /\ committed' = FALSE
    /\ stable' = FALSE
    /\ UNCHANGED <<call, result, fleet, db>>

\* lines 293-294 and the return of main; next is what the endpoints answer
\* from now on
Close(next) ==
    /\ pc = "finally"
    /\ session' = "closed"
    /\ tx' = db
    /\ pc' = "idle"
    /\ runs' = runs + 1
    /\ upstream' = next
    /\ devices_list_raw' = NoneDoc
    /\ devices_team_list' = NoneDoc
    /\ AVBoxs_data' = <<>>
    /\ added_ids' = {}
    /\ removed_ids' = {}
    /\ pre' = db
    /\ discarded' = db
    /\ raised_at' = "none"
    /\ fault' = "none"
    /\ committed' = FALSE
    /\ stable' = FALSE
    /\ UNCHANGED <<call, result, fleet, db>>

\* the run ends and the upstream changes before the next one
Finally ==
    /\ session = "open"
    /\ Close(UnknownUpstream)

\* the run committed and the upstream stays as it is until the next one
FinallyUnchanged ==
    /\ committed
    /\ Close(upstream)

Next ==
    \/ FetchNew
    \/ FetchSame
    \/ Group
    \/ Diff
    \/ Remove
    \/ Upsert
    \/ MapUpsert
    \/ Commit
    \/ Report
    \/ ReportFault
    \/ DbFault
    \/ UpsertFault
    \/ MapFault
    \/ Except
    \/ Finally
    \/ FinallyUnchanged

Spec == Init /\ [][Next]_vars

\* a step of a run that has begun
RunStep ==
    \/ Except
    \/ Finally
    \/ FinallyUnchanged
    \/ DbFault
    \/ UpsertFault
    \/ MapFault
    \/ ReportFault
    \/ Group
    \/ Diff
    \/ Remove
    \/ Upsert
    \/ MapUpsert
    \/ Commit
    \/ Report

\* main is straight-line code with loops over finite lists: once called, it
\* goes on to its next statement until it returns
FairSpec == Spec /\ WF_vars(RunStep)

(* ----------------------- the helpers on their own ---------------------- *)
\* The helpers of lines 124-183 are functions of their arguments alone; here
\* each is called once on arguments drawn from the sets below, with no run
\* of main in progress.
RawTypes == {Absent, None, "", "chrome", "Chrome", "FireFox", "SAFARI", "android", "browser"}
RawSubtypes == {Absent, None, "", "tv", "browser"}
RawDevices ==
    {Device(t, s, id, a, "Pixel", NoAvbox) :
        t \in RawTypes, s \in RawSubtypes, id \in {Absent, "u1"}, a \in {Absent, "a1"}}

TeamDocs == {NoneDoc, DocNoDevices, Doc(<<>>), TeamsGood, TeamsNoName, TeamsSparse}
TeamAddresses == {"a1", "a4", "a8", None}

\* the device lists handed to the loop of lines 199-201
BoxDevices == {Dut, Camera, Control, DutAlone}
BoxLists == UNION {[1..n -> BoxDevices] : n \in 0..MaxGroup}

Calls ==
    {[fn |-> f, device |-> d] :
        f \in {"get_effective_device_type", "get_unique_device_id"}, d \in RawDevices}
    \cup {[fn |-> "get_device_teams", device_address |-> a, teams_list |-> doc] :
            a \in TeamAddresses, doc \in TeamDocs}
    \cup {[fn |-> "add_avbox_mapping_entry", devices |-> l] : l \in BoxLists}

Returned(r) == [done |-> TRUE, ret |-> r]

HelperInit ==
    /\ fleet = [devices |-> {}, teamDocs |-> {}]
    /\ upstream = UnknownUpstream
    /\ db = EmptyDb
    /\ tx = EmptyDb
    /\ session = "closed"
    /\ pc = "idle"
    /\ runs = 0
    /\ devices_list_raw = NoneDoc
    /\ devices_team_list = NoneDoc
    /\ AVBoxs_data = <<>>
    /\ added_ids = {}
    /\ removed_ids = {}
    /\ pre = EmptyDb
    /\ raised_at = "none"
    /\ fault = "none"
    /\ discarded = EmptyDb
    /\ committed = FALSE
    /\ stable = FALSE
    /\ call \in Calls
    /\ result = NoResult

\* what a call of a helper leaves alone: everything but its result
outside ==
    <<fleet, upstream, db, tx, session, pc, runs, locals, pre, raised_at, fault, discarded,
      committed, stable, call>>

\* lines 124-129
CallEffectiveType ==
    /\ call.fn = "get_effective_device_type"
    /\ ~result.done
    /\ result' = Returned(LET t == get_effective_device_type(call.device)
                          IN  IF t = AttributeError THEN Raise(AttributeError, None)
                              ELSE Ok(t))
    /\ UNCHANGED outside

\* lines 131-134
CallUniqueId ==
    /\ call.fn = "get_unique_device_id"
    /\ ~result.done
    /\ result' = Returned(LET id == get_unique_device_id(call.device)
                          IN  IF get_effective_device_type(call.device) = AttributeError
                              THEN Raise(AttributeError, None)
                              ELSE Ok(id))
    /\ UNCHANGED outside

\* lines 136-144
CallTeams ==
    /\ call.fn = "get_device_teams"
    /\ ~result.done
    /\ result' = Returned(get_device_teams(call.device_address, call.teams_list))
    /\ UNCHANGED outside

\* lines 199-201 on an empty AVBoxs_data
CallGroup ==
    /\ call.fn = "add_avbox_mapping_entry"
    /\ ~result.done
    /\ result' = Returned(GroupLoop(call.devices, <<>>))
    /\ UNCHANGED outside

HelperNext ==
    \/ CallEffectiveType
    \/ CallUniqueId
    \/ CallTeams
    \/ CallGroup

HelperSpec == HelperInit /\ [][HelperNext]_vars

(* ------------------------------ properties ----------------------------- *)
\* The run has ended: its outcome is in the state and the session is about
\* to close.
RunEnded == pc = "finally"
Snapshot == devices_list_raw.devices
\* the positions of the ledger rows the run has written
NewRows(t) == (Len(pre.ledger) + 1)..Len(t.ledger)
IsPrefix(a, b) == Len(a) <= Len(b) /\ SubSeq(b, 1, Len(a)) = a
\* added and removed have been computed
DiffDone ==
    \/ pc \in {"remove", "upsert", "map", "commit", "report"}
    \/ pc \in {"except", "finally"} /\ raised_at \in {"remove", "upsert", "map", "commit", "report"}
    \/ pc = "finally" /\ committed
\* the device endpoint failed or gave no usable device list
DeviceListUnavailable ==
    \/ upstream.devices.fault
    \/ upstream.devices.status # 200
    \/ Unusable(upstream.devices.body)
\* the device carries auxiliary-usage info with role device_under_test
IsDeviceUnderTest(device) ==
    device.avbox_info.kind = "dict" /\ device.avbox_info.usage = "device_under_test"

\* C1: in a run that commits, every identifier that had an inventory record
\* when the run began and is not resolved from the snapshot gets a 'removed'
\* ledger entry and loses its inventory record.
C1_RemovedAreDeleted ==
    (RunEnded /\ committed) =>
        \A id \in InventoryIds(pre) \ ApiUniqueIds(Snapshot) :
            /\ id \notin InventoryIds(db)
            /\ \E i \in NewRows(db) :
                  db.ledger[i].udid = id /\ db.ledger[i].status = "removed"

\* C2: once the diff is done, added is the snapshot's identifiers minus the
\* identifiers persisted when the run began, whatever the run has written
\* since; nothing is written before it is computed; and every 'added' ledger
\* entry of the run is for an identifier of that set.
C2_AddedIsSnapshotMinusPersisted ==
    DiffDone =>
        /\ added_ids = ApiUniqueIds(Snapshot) \ InventoryIds(pre)
        /\ pc = "remove" => tx = pre
        /\ \A i \in NewRows(tx) :
              tx.ledger[i].status = "added" =>
                  tx.ledger[i].udid \in ApiUniqueIds(Snapshot) \ InventoryIds(pre)

C2_Witness ==
    /\ RunEnded /\ committed
    /\ added_ids # {}
    /\ InventoryIds(pre) \cap ApiUniqueIds(Snapshot) # {}
    /\ \E i \in NewRows(db) : db.ledger[i].status = "added"

\* C3: a run on the answers the preceding, committed run saw appends no
\* ledger entry and leaves every inventory row and box-mapping row as it was.
C3_Idempotent ==
    (RunEnded /\ stable) =>
        /\ db.ledger = pre.ledger
        /\ db.inventory = pre.inventory
        /\ db.avbox = pre.avbox

C3_Witness ==
    /\ RunEnded /\ stable /\ committed
    /\ db.inventory # {}
    /\ db.avbox # {}
    /\ db.ledger # <<>>

\* C4: after a fault raised between the opening of the session and the
\* commit, the committed tables are those of the start of the run, in the
\* handler and after it, and the session sees nothing else once rolled back.
C4_Atomic ==
    (pc \in {"except", "finally"}
        /\ raised_at \in {"group", "diff", "remove", "upsert", "map", "commit"}) =>
        /\ db = pre
        /\ pc = "finally" => tx = pre

C4_Witness ==
    /\ RunEnded
    /\ raised_at = "upsert"
    /\ discarded.inventory # pre.inventory
    /\ discarded.ledger # pre.ledger

\* C5 as stated: every run that ends in the failure path leaves the three
\* tables as they were before the run, the fault raised after the commit
\* included.
C5_EveryFailureRestores ==
    (RunEnded /\ fault # "none") => db = pre

\* C5 as amended: a run that ends in the failure path leaves the tables as
\* they were before the run when the fault was raised before the commit
\* returned, and as the commit wrote them when it was raised after.
C5_FailureRestoresUnlessCommitted ==
    (RunEnded /\ fault # "none") =>
        IF raised_at = "report"
        THEN committed /\ db = discarded
        ELSE ~committed /\ db = pre

C5_Witness ==
    /\ RunEnded
    /\ raised_at = "report"
    /\ db # pre

\* C6: a run whose device fetch fails, or gives no usable device list, goes
\* from the fetch to its end and leaves the three tables as they were.
C6_UnavailableLeavesTables ==
    (pc # "idle" /\ DeviceListUnavailable) =>
        /\ pc \in {"except", "finally"}
        /\ ~committed
        /\ db = pre
        /\ tx = pre

C6_Witness ==
    /\ RunEnded
    /\ upstream.devices.status = 500
    /\ pre.inventory # {}
    /\ pre.ledger # <<>>

\* C7: a run on a non-empty device list whose only faults are local
\* anomalies of the data (no transport, database or reporting fault)
\* commits.
C7_AnomaliesNeverAbort ==
    (RunEnded /\ ~Unusable(devices_list_raw)
        /\ fault \notin {"TransportError", "DatabaseError", "ReportError"}) =>
        committed /\ fault = "none"

\* C8: every step leaves the committed ledger a prefix of what it becomes:
\* no row of it is changed or deleted, whatever the run does.
C8_LedgerAppendOnly == [][IsPrefix(db.ledger, db'.ledger)]_vars

C8_Witness ==
    /\ RunEnded /\ committed
    /\ pre.ledger # <<>>
    /\ Len(db.ledger) > Len(pre.ledger)

\* C9: the committed inventory holds at most one row per unique identifier.
C9_OneRecordPerIdentifier ==
    \A r1, r2 \in db.inventory : r1.udid = r2.udid => r1 = r2

C9_Witness ==
    /\ RunEnded /\ committed
    /\ \E i, j \in 1..Len(Snapshot) :
          /\ i < j
          /\ InventoryEligible(Snapshot[i].avbox_info)
          /\ InventoryEligible(Snapshot[j].avbox_info)
          /\ get_unique_device_id(Snapshot[i]) = get_unique_device_id(Snapshot[j])
          /\ Snapshot[i] # Snapshot[j]
    /\ db.inventory # {}

\* C10: after a run that commits, every device of the snapshot with role
\* device_under_test has a box mapping keyed by its address, with its
\* category and note.
C10_EveryDutIsMapped ==
    (RunEnded /\ committed) =>
        \A i \in 1..Len(Snapshot) :
            IsDeviceUnderTest(Snapshot[i]) =>
                \E m \in db.avbox :
                    /\ m.dut = Get(Snapshot[i], "device_address")
                    /\ m.device_type = Or(Get(Snapshot[i], "device_subtype"),
                                          Get(Snapshot[i], "device_type"))
                    /\ m.device_notes = Get(Snapshot[i], "device_note")


MappedDuts(t) == {r.dut : r \in t.avbox}
\* C12: the box-mapping table never holds two mappings of one
\* device-under-test key, and no step of any run takes a key out of it: a key
\* mapped after one run is mapped after every later run.
C12_MappingsUniqueAndKept ==
    /\ [](\A r, q \in db.avbox : r.dut = q.dut => r = q)
    /\ [][MappedDuts(db) \subseteq MappedDuts(db')]_vars
\* a later run committed on a snapshot with no record of a mapped box, and
\* the mapping is still there
C12_Witness ==
    /\ RunEnded
    /\ committed
    /\ pre.avbox # {}
    /\ AVBoxs_data = <<>>
    /\ db.inventory # pre.inventory
    /\ db.avbox = pre.avbox

\* the device carries an auxiliary usage that is not exactly device_under_test
CompanionOnly(device) ==
    /\ device.avbox_info.kind = "dict"
    /\ device.avbox_info.usage # Absent
    /\ device.avbox_info.usage # "device_under_test"
\* the inventory row is the normalised record of the device
WrittenFrom(row, device) ==
    LET rec == device_details_for_db(device, devices_team_list)
    IN  ~rec.raised /\ row = InventoryRow(row.id, rec.value)
\* C13: while a run is under way, every inventory row it has inserted or
\* overwritten is the record of a snapshot device that is not companion-only,
\* and every 'added' ledger entry it has written carries the identifier of
\* such a device: a camera or control device is never the source of either.
C13_CompanionsNotInInventory ==
    session = "open" =>
        /\ \A r \in tx.inventory \ pre.inventory :
              \E i \in 1..Len(Snapshot) :
                  ~CompanionOnly(Snapshot[i]) /\ WrittenFrom(r, Snapshot[i])
        /\ \A k \in NewRows(tx) :
              tx.ledger[k].status = "added" =>
                  \E i \in 1..Len(Snapshot) :
                      /\ ~CompanionOnly(Snapshot[i])
                      /\ get_unique_device_id(Snapshot[i]) = tx.ledger[k].udid
\* a committed run on a snapshot with a companion and a device-under-test:
\* the latter was inserted, the former was not
C13_Witness ==
    /\ RunEnded
    /\ committed
    /\ db.inventory # pre.inventory
    /\ \E i, j \in 1..Len(Snapshot) :
          /\ CompanionOnly(Snapshot[i])
          /\ get_unique_device_id(Snapshot[i]) \notin InventoryIds(db)
          /\ IsDeviceUnderTest(Snapshot[j])
          /\ get_unique_device_id(Snapshot[j]) \in InventoryIds(db)

\* C14: every call of get_unique_device_id returns, and returns the
\* device's address when its effective category is 'browser' and its
\* device_id otherwise.  Checked under HelperSpec.
C14_UniqueIdByCategory ==
    (call.fn = "get_unique_device_id" /\ result.done) =>
        /\ ~result.ret.raised
        /\ result.ret.value =
              IF get_effective_device_type(call.device) = "browser"
              THEN Get(call.device, "device_address")
              ELSE Get(call.device, "device_id")

\* the browser names in the letter cases the calls use
BrowserNames == {"chrome", "Chrome", "firefox", "FireFox", "safari", "SAFARI"}
\* C15: every call of get_effective_device_type returns, and returns the
\* sub-category when the device has one; otherwise 'browser' when the
\* category is chrome, firefox or safari in any letter case; otherwise the
\* category as the device carries it.  Checked under HelperSpec.
C15_EffectiveCategory ==
    (call.fn = "get_effective_device_type" /\ result.done) =>
        /\ ~result.ret.raised
        /\ result.ret.value =
              IF Truthy(call.device.device_subtype) THEN call.device.device_subtype
              ELSE IF call.device.device_type \in BrowserNames THEN "browser"
              ELSE IF call.device.device_type = Absent THEN ""
              ELSE call.device.device_type

RECURSIVE NamesOf(_, _)
\* the team names of the entries of the address, in the order of the document
NamesOf(device_address, entries) ==
    IF entries = <<>> THEN <<>>
    ELSE (IF device_address = Get(Head(entries), "device_address")
          THEN [i \in 1..Len(Head(entries).teams) |-> Head(entries).teams[i].team_name]
          ELSE <<>>) \o NamesOf(device_address, Tail(entries))
\* the first position of x in s
FirstAt(x, s) == CHOOSE i \in 1..Len(s) : s[i] = x /\ \A j \in 1..(i - 1) : s[j] # x
\* C16: every call of get_device_teams returns; it returns the empty list
\* when the team document is absent or has no device list, and otherwise
\* every team name of the entries of the address, each once, in the order of
\* first appearance.  Checked under HelperSpec.
C16_TeamsOnceInOrder ==
    (call.fn = "get_device_teams" /\ result.done) =>
        LET names == NamesOf(call.device_address, call.teams_list.devices)
            got == result.ret.value
        IN  /\ ~result.ret.raised
            /\ Unusable(call.teams_list) => got = <<>>
            /\ {got[i] : i \in 1..Len(got)} = {names[i] : i \in 1..Len(names)}
            /\ \A i, j \in 1..Len(got) :
                  i < j => got[i] # got[j] /\ FirstAt(got[i], names) < FirstAt(got[j], names)

\* the positions of the snapshot devices that go to the inventory
EligibleAt == {i \in 1..Len(Snapshot) : InventoryEligible(Snapshot[i].avbox_info)}
\* no two of them resolve to one identifier
DistinctEligibleIds ==
    \A i, j \in EligibleAt :
        get_unique_device_id(Snapshot[i]) = get_unique_device_id(Snapshot[j]) => i = j
\* C17: after a run that commits on a snapshot whose inventory-eligible
\* devices resolve to pairwise distinct identifiers, each such identifier has
\* one inventory row, every field of it is the field of the record normalised
\* from the snapshot device, and a row the identifier had before the run has
\* kept its primary key.
C17_UpsertOverwritesInPlace ==
    (RunEnded /\ committed /\ DistinctEligibleIds) =>
        \A i \in EligibleAt :
            LET rows == Matching(db.inventory, "udid", get_unique_device_id(Snapshot[i]))
                before == Matching(pre.inventory, "udid", get_unique_device_id(Snapshot[i]))
            IN  /\ Cardinality(rows) = 1
                /\ \A r \in rows : WrittenFrom(r, Snapshot[i])
                /\ \A r \in rows : \A b \in before : r.id = b.id
\* the identifier had a row with other field values before the run
C17_Witness ==
    /\ RunEnded
    /\ committed
    /\ DistinctEligibleIds
    /\ \E i \in EligibleAt :
          \E b \in pre.inventory :
              /\ b.udid = get_unique_device_id(Snapshot[i])
              /\ ~WrittenFrom(b, Snapshot[i])
              /\ \E r \in db.inventory : r.id = b.id /\ WrittenFrom(r, Snapshot[i])

\* C18: a run that has opened its session goes on to close it, with nothing
\* left in a transaction: whether it commits, returns early on an unusable
\* device list, or catches a fault at any step.  Checked under FairSpec.
C18_SessionReleased ==
    (session = "open") ~> (session = "closed" /\ pc = "idle" /\ tx = db)
\* a run has ended and its session is closed
C18_Witness ==
    /\ runs > 0
    /\ pc = "idle"
    /\ session = "closed"
    /\ tx = db
    /\ db.ledger # <<>>

\* the status of the newest committed ledger entry of the identifier is 'added'
LastIsAdded(id) ==
    \E i \in 1..Len(db.ledger) :
        /\ db.ledger[i].udid = id
        /\ db.ledger[i].status = "added"
        /\ \A j \in (i + 1)..Len(db.ledger) : db.ledger[j].udid # id
\* C19: in every committed state, the identifiers with an inventory record
\* are the identifiers whose newest ledger entry has status 'added'.
C19_LedgerMatchesInventory ==
    \A id \in InventoryIds(db) \cup {db.ledger[i].udid : i \in 1..Len(db.ledger)} :
        id \in InventoryIds(db) <=> LastIsAdded(id)
\* a second run has overwritten the record of an identifier and written no
\* entry for it
C19_Witness ==
    /\ RunEnded
    /\ committed
    /\ pre.inventory # {}
    /\ db.inventory # pre.inventory
    /\ InventoryIds(db) = InventoryIds(pre)
    /\ db.ledger = pre.ledger
    /\ \A id \in InventoryIds(db) : LastIsAdded(id)

\* C20: the ledger entries a run has written hold at most one entry with
\* status 'added' for any one identifier.
C20_OneAddedPerIdentifier ==
    session = "open" =>
        \A i, j \in NewRows(tx) :
            (/\ tx.ledger[i].status = "added"
             /\ tx.ledger[j].status = "added"
             /\ tx.ledger[i].udid = tx.ledger[j].udid) => i = j
====
